---- MODULE Spec2Model ----
(***************************************************************************)
(* Model of client_factory.go: the factory New (parameter validation,      *)
(* underlying connection build, TLS configuration), the wrapper            *)
(* oVirtClient with its accessors, and the retry loop of RemoveDisk.       *)
(*                                                                         *)
(* Strings that the code inspects character by character (url, username)   *)
(* are sequences of one-character strings.  Go errors are records          *)
(* [msg, arg, cause]; the nil error is the record Nil.  Errors are only    *)
(* ever inspected through their msg field and their cause chain.           *)
(***************************************************************************)
EXTENDS Naturals, Sequences, FiniteSets, TLC

VARIABLES
    called,     \* TRUE once New has been called and has returned
    args,       \* the parameters New was called with
    sdkBuild,   \* what connBuilder.Build() did: "notcalled", "ok" or "failed"
    trace,      \* the steps New executed, in order
    client,     \* the Client returned by New (NoClient when New returned nil)
    err,        \* the error returned by New (Nil on success)
    ret,        \* the value returned by the most recent accessor call
    pc,         \* position of the RemoveDisk call: idle, attempt, select, returned
    ctxDone,    \* whether ctx.Done() of the running RemoveDisk call is closed
    ctxAtCall,  \* whether that context was already done when RemoveDisk was called
    diskID,     \* the diskID argument of the running RemoveDisk call
    lastError,  \* RemoveDisk's local variable lastError
    rdErr,      \* the error returned by RemoveDisk
    outcomes,   \* outcome of every Send() of the running call (TRUE = success)
    waits       \* how often the 5-second timer of the running call has elapsed

vars == <<called, args, sdkBuild, trace, client, err, ret,
          pc, ctxDone, ctxAtCall, diskID, lastError, rdErr, outcomes, waits>>

newVars == <<called, args, sdkBuild, trace, client, err>>
rdVars == <<pc, ctxDone, ctxAtCall, diskID, lastError, rdErr, outcomes, waits>>

----------------------------------------------------------------------------
(* Bounds of the model *)

\* longest username drawn over the alphabet {a, @}
MaxUserLen == 3
\* most pieces (scheme tokens, host text) a generated url is made of
MaxUrlParts == 2
\* most PEM blocks in the inline caCert bytes
MaxPemBlocks == 1
\* most Send() attempts of one RemoveDisk call that the model follows
MaxAttempts == 3

----------------------------------------------------------------------------
(* Strings *)

RECURSIVE SeqsUpTo(_, _)
SeqsUpTo(S, n) ==
    IF n = 0 THEN {<<>>}
    ELSE LET shorter == SeqsUpTo(S, n - 1)
         IN  shorter \cup {Append(s, x) : s \in shorter, x \in S}

RECURSIVE Concat(_)
Concat(ss) == IF ss = <<>> THEN <<>> ELSE Head(ss) \o Concat(Tail(ss))

HttpScheme == <<"h", "t", "t", "p", ":", "/", "/">>
HttpsScheme == <<"h", "t", "t", "p", "s", ":", "/", "/">>

\* "https://engine.example/ovirt-engine/api"
ScenarioURL ==
    HttpsScheme \o
    <<"e", "n", "g", "i", "n", "e", ".", "e", "x", "a", "m", "p", "l", "e", "/">> \o
    <<"o", "v", "i", "r", "t", "-", "e", "n", "g", "i", "n", "e", "/", "a", "p", "i">>

\* "admin@internal"
ScenarioUsername ==
    <<"a", "d", "m", "i", "n", "@", "i", "n", "t", "e", "r", "n", "a", "l">>

UrlPieces == {HttpScheme, HttpsScheme, <<"e">>}
URLs == {Concat(ps) : ps \in SeqsUpTo(UrlPieces, MaxUrlParts)} \cup {ScenarioURL}
Usernames == SeqsUpTo({"a", "@"}, MaxUserLen) \cup {ScenarioUsername}
Passwords == {"x"}

\* strings.HasPrefix / strings.HasSuffix
HasPrefix(s, prefix) ==
    /\ Len(s) >= Len(prefix)
    /\ SubSeq(s, 1, Len(prefix)) = prefix

HasSuffix(s, suffix) ==
    /\ Len(s) >= Len(suffix)
    /\ SubSeq(s, Len(s) - Len(suffix) + 1, Len(s)) = suffix

\* strings.SplitN(s, sep, n) for a one-character separator and n >= 1:
\* at most n parts, the last one holding the unsplit remainder.
RECURSIVE SplitN(_, _, _)
SplitN(s, sep, n) ==
    LET hits == {i \in 1..Len(s) : s[i] = sep}
    IN  IF n <= 1 \/ hits = {} THEN <<s>>
        ELSE LET i == CHOOSE k \in hits : \A j \in hits : k <= j
             IN  <<SubSeq(s, 1, i - 1)>> \o SplitN(SubSeq(s, i + 1, Len(s)), sep, n - 1)

----------------------------------------------------------------------------
(* Errors *)

Nil == [msg |-> "nil"]
IsNil(e) == e.msg = "nil"

\* fmt.Errorf(msg) with no wrapped error
ErrorNew(msg) == [msg |-> msg]
\* fmt.Errorf with the formatted argument arg and the wrapped error cause (%w)
Errorf(msg, arg, cause) == [msg |-> msg, arg |-> arg, cause |-> cause]
\* fmt.Errorf with only a wrapped error
Wrap(msg, cause) == [msg |-> msg, cause |-> cause]
\* fmt.Errorf with only a formatted argument
ErrorArg(msg, arg) == [msg |-> msg, arg |-> arg]

----------------------------------------------------------------------------
(* Validation *)

validateUsername(username) ==
    LET usernameParts == SplitN(username, "@", 2)
    IN  IF Len(usernameParts) # 2
        THEN ErrorNew("username must contain exactly one @ sign")
        ELSE IF Len(usernameParts[1]) = 0
        THEN ErrorNew("no user supplied before @ sign in username")
        ELSE IF Len(usernameParts[2]) = 0
        THEN ErrorNew("no scope supplied after @ sign in username")
        ELSE Nil

validateURL(url) ==
    IF ~HasPrefix(url, HttpScheme) /\ ~HasSuffix(url, HttpsScheme)
    THEN ErrorNew("URL must start with http:// or https://")
    ELSE Nil

----------------------------------------------------------------------------
(* Certificates and the file system *)

\* PEM data is a sequence of blocks: "cert" is a parseable CERTIFICATE block,
\* "junk" is anything else.
PemBlocks == {"cert", "junk"}
CaCerts == SeqsUpTo(PemBlocks, MaxPemBlocks)

\* The files that exist; every other path is unreadable.
Files == [p \in {"ca.pem", "junk.pem"} |->
            IF p = "ca.pem" THEN <<"cert">> ELSE <<"junk">>]
CaFiles == {"", "ca.pem", "junk.pem", "missing.pem"}

\* ioutil.ReadFile
ReadFile(path) ==
    IF path \in DOMAIN Files
    THEN [data |-> Files[path], err |-> Nil]
    ELSE [data |-> <<>>, err |-> ErrorNew("no such file or directory")]

\* (*x509.CertPool).AppendCertsFromPEM: ok iff at least one certificate was added
AppendCertsFromPEM(pemCerts) == \E i \in 1..Len(pemCerts) : pemCerts[i] = "cert"

\* The fixed part of the tls.Config that createTLSConfig starts from.
TLSConfig(insecure) ==
    [MinVersion |-> "VersionTLS12",
     CipherSuites |-> <<"TLS_ECDHE_ECDSA_WITH_AES_128_GCM_SHA256",
                        "TLS_ECDHE_RSA_WITH_AES_128_GCM_SHA256",
                        "TLS_ECDHE_ECDSA_WITH_AES_256_GCM_SHA384",
                        "TLS_ECDHE_RSA_WITH_AES_256_GCM_SHA384",
                        "TLS_ECDHE_ECDSA_WITH_CHACHA20_POLY1305",
                        "TLS_ECDHE_RSA_WITH_CHACHA20_POLY1305">>,
     CurvePreferences |-> <<"CurveP256", "CurveP384">>,
     PreferServerCipherSuites |-> FALSE,
     InsecureSkipVerify |-> insecure]

\* The mutation of createTLSConfig that reads the file before the inline bytes.
createTLSConfigFileFirst(caFile, caCert, insecure) ==
    LET tlsConfig == TLSConfig(insecure)
        pem == ReadFile(caFile)
    IN  IF caFile # "" /\ ~IsNil(pem.err)
        THEN [cfg |-> Nil,
              err |-> Errorf("failed to read CA certificate from file", caFile, pem.err)]
        ELSE IF caFile # "" /\ ~AppendCertsFromPEM(pem.data)
        THEN [cfg |-> Nil,
              err |-> ErrorArg("the provided CA certificate is not a valid certificate in PEM format in file", caFile)]
        ELSE IF Len(caCert) # 0 /\ ~AppendCertsFromPEM(caCert)
        THEN [cfg |-> Nil,
              err |-> ErrorNew("the provided CA certificate is not a valid certificate in PEM format")]
        ELSE [cfg |-> tlsConfig, err |-> Nil]

\* The certificate pool is a local of createTLSConfig: the certificates are
\* parsed into it, and the returned configuration does not refer to it.
createTLSConfig(caFile, caCert, insecure) ==
    LET tlsConfig == TLSConfig(insecure)
        pem == ReadFile(caFile)
    IN  IF Len(caCert) # 0 /\ ~AppendCertsFromPEM(caCert)
        THEN [cfg |-> Nil,
              err |-> ErrorNew("the provided CA certificate is not a valid certificate in PEM format")]
        ELSE IF caFile # "" /\ ~IsNil(pem.err)
        THEN [cfg |-> Nil,
              err |-> Errorf("failed to read CA certificate from file", caFile, pem.err)]
        ELSE IF caFile # "" /\ ~AppendCertsFromPEM(pem.data)
        THEN [cfg |-> Nil,
              err |-> ErrorArg("the provided CA certificate is not a valid certificate in PEM format in file", caFile)]
        ELSE [cfg |-> tlsConfig, err |-> Nil]

----------------------------------------------------------------------------
(* The factory *)

NoClient == [valid |-> FALSE]
HeaderSets == {{}, {"X-Extra"}}

\* What connBuilder.Build() returns: nil, or an error of the SDK.
SdkBuildErrors == {Nil, ErrorNew("sdk: connection build failed")}

\* The connection the SDK builds from the builder's settings.
Connection(url, username, password, caFile, caCert, insecure, extraHeaders) ==
    [url |-> url, username |-> username, password |-> password,
     caFile |-> caFile, caCert |-> caCert, insecure |-> insecure,
     headers |-> IF Cardinality(extraHeaders) > 0 THEN extraHeaders ELSE {}]

\* The mutation of the trust check that forgets the insecure flag.
MissingTrustIgnoringInsecure(caFile, caCert, insecure) ==
    caFile = "" /\ Len(caCert) = 0

\* The condition of the third check of New.
MissingTrust(caFile, caCert, insecure) ==
    caFile = "" /\ Len(caCert) = 0 /\ ~insecure

NewReturn(c, e, steps, build) ==
    [client |-> c, err |-> e, trace |-> steps, sdkBuild |-> build]

\* The mutation of New that builds the connection before the trust check.
NewBuildBeforeTrust(url, username, password, caFile, caCert, insecure, extraHeaders, buildErr) ==
    LET tls == createTLSConfig(caFile, caCert, insecure)
    IN  IF ~IsNil(validateURL(url))
        THEN NewReturn(NoClient, Errorf("invalid URL", url, validateURL(url)),
                       <<"validateURL">>, "notcalled")
        ELSE IF ~IsNil(validateUsername(username))
        THEN NewReturn(NoClient,
                       Errorf("invalid username", username, validateUsername(username)),
                       <<"validateURL", "validateUsername">>, "notcalled")
        ELSE IF ~IsNil(buildErr)
        THEN NewReturn(NoClient,
                       Wrap("failed to create underlying oVirt connection", buildErr),
                       <<"validateURL", "validateUsername", "build">>, "failed")
        ELSE IF MissingTrust(caFile, caCert, insecure)
        THEN NewReturn(NoClient,
                       ErrorNew("one of caFile, caCert, or insecure must be provided"),
                       <<"validateURL", "validateUsername", "build", "trust">>, "ok")
        ELSE IF ~IsNil(tls.err)
        THEN NewReturn(NoClient, Wrap("failed to create TLS configuration", tls.err),
                       <<"validateURL", "validateUsername", "build", "trust", "tls">>, "ok")
        ELSE NewReturn([valid |-> TRUE,
                        conn |-> Connection(url, username, password, caFile, caCert,
                                            insecure, extraHeaders),
                        httpClient |-> [Transport |-> [TLSClientConfig |-> tls.cfg]],
                        url |-> url],
                       Nil,
                       <<"validateURL", "validateUsername", "build", "trust", "tls">>, "ok")

\* New: the returned client and error, the steps it ran, and what became of
\* the connection build.  buildErr is what connBuilder.Build() returns when
\* it is called.
New(url, username, password, caFile, caCert, insecure, extraHeaders, buildErr) ==
    LET tls == createTLSConfig(caFile, caCert, insecure)
    IN  IF ~IsNil(validateURL(url))
        THEN NewReturn(NoClient, Errorf("invalid URL", url, validateURL(url)),
                       <<"validateURL">>, "notcalled")
        ELSE IF ~IsNil(validateUsername(username))
        THEN NewReturn(NoClient,
                       Errorf("invalid username", username, validateUsername(username)),
                       <<"validateURL", "validateUsername">>, "notcalled")
        ELSE IF MissingTrust(caFile, caCert, insecure)
        THEN NewReturn(NoClient,
                       ErrorNew("one of caFile, caCert, or insecure must be provided"),
                       <<"validateURL", "validateUsername", "trust">>, "notcalled")
        ELSE IF ~IsNil(buildErr)
        THEN NewReturn(NoClient,
                       Wrap("failed to create underlying oVirt connection", buildErr),
                       <<"validateURL", "validateUsername", "trust", "build">>, "failed")
        ELSE IF ~IsNil(tls.err)
        THEN NewReturn(NoClient, Wrap("failed to create TLS configuration", tls.err),
                       <<"validateURL", "validateUsername", "trust", "build", "tls">>, "ok")
        ELSE NewReturn([valid |-> TRUE,
                        conn |-> Connection(url, username, password, caFile, caCert,
                                            insecure, extraHeaders),
                        httpClient |-> [Transport |-> [TLSClientConfig |-> tls.cfg]],
                        url |-> url],
                       Nil,
                       <<"validateURL", "validateUsername", "trust", "build", "tls">>, "ok")

NoArgs == [valid |-> FALSE]
NoRet == [op |-> "none"]

\* A caller calls New with some parameters, and the call returns.
CallNew ==
    /\ ~called
    /\ \E url \in URLs, username \in Usernames, password \in Passwords,
          caFile \in CaFiles, caCert \in CaCerts, insecure \in BOOLEAN,
          extraHeaders \in HeaderSets, buildErr \in SdkBuildErrors :
          LET r == New(url, username, password, caFile, caCert, insecure,
                       extraHeaders, buildErr)
          IN  /\ args' = [valid |-> TRUE, url |-> url, username |-> username,
                          password |-> password, caFile |-> caFile,
                          caCert |-> caCert, insecure |-> insecure,
                          extraHeaders |-> extraHeaders]
              /\ client' = r.client
              /\ err' = r.err
              /\ trace' = r.trace
              /\ sdkBuild' = r.sdkBuild
    /\ called' = TRUE
    /\ UNCHANGED <<ret, rdVars>>

----------------------------------------------------------------------------
(* The wrapper's accessors *)

GetSDKClient ==
    /\ client.valid
    /\ ret' = [op |-> "GetSDKClient", val |-> client.conn]
    /\ UNCHANGED <<newVars, rdVars>>

GetHTTPClient ==
    /\ client.valid
    /\ ret' = [op |-> "GetHTTPClient", val |-> client.httpClient]
    /\ UNCHANGED <<newVars, rdVars>>

\* The mutation of GetURL that drops the last character of the url.
GetURLTrimmed ==
    /\ client.valid
    /\ ret' = [op |-> "GetURL", val |-> SubSeq(client.url, 1, Len(client.url) - 1)]
    /\ UNCHANGED <<newVars, rdVars>>

GetURL ==
    /\ client.valid
    /\ ret' = [op |-> "GetURL", val |-> client.url]
    /\ UNCHANGED <<newVars, rdVars>>

----------------------------------------------------------------------------
(* RemoveDisk *)

DiskIDs == {"disk-1", "disk-2"}

\* The error of a failed Remove().Send().
SendError == ErrorNew("sdk: remove request failed")

\* A caller calls RemoveDisk on the wrapper with a context that is already
\* done or not; one call runs at a time.
RemoveDisk ==
    /\ client.valid
    /\ pc \in {"idle", "returned"}
    /\ \E id \in DiskIDs, done \in BOOLEAN :
          /\ diskID' = id
          /\ ctxDone' = done
          /\ ctxAtCall' = done
    /\ pc' = "attempt"
    /\ lastError' = Nil
    /\ rdErr' = Nil
    /\ outcomes' = <<>>
    /\ waits' = 0
    /\ UNCHANGED <<newVars, ret>>

\* The mutation of Send that does not remember the failure in lastError.
SendForgettingError ==
    /\ pc = "attempt"
    /\ \E ok \in BOOLEAN :
          /\ outcomes' = Append(outcomes, ok)
          /\ IF ok
             THEN /\ pc' = "returned"
                  /\ rdErr' = Nil
                  /\ UNCHANGED lastError
             ELSE /\ pc' = "select"
                  /\ UNCHANGED <<lastError, rdErr>>
    /\ UNCHANGED <<newVars, ret, ctxDone, ctxAtCall, diskID, waits>>

\* The mutation of Send that looks at the context before returning success.
SendCheckingContext ==
    /\ pc = "attempt"
    /\ \E ok \in BOOLEAN :
          /\ outcomes' = Append(outcomes, ok)
          /\ IF ok /\ ~ctxDone
             THEN /\ pc' = "returned"
                  /\ rdErr' = Nil
                  /\ UNCHANGED lastError
             ELSE /\ pc' = "select"
                  /\ lastError' = Errorf("failed to remove disk", diskID, SendError)
                  /\ UNCHANGED rdErr
    /\ UNCHANGED <<newVars, ret, ctxDone, ctxAtCall, diskID, waits>>

\* One pass of the loop body up to the select: the removal request is sent
\* and answered.  Success returns nil; failure is remembered in lastError.
Send ==
    /\ pc = "attempt"
    /\ \E ok \in BOOLEAN :
          /\ outcomes' = Append(outcomes, ok)
          /\ IF ok
             THEN /\ pc' = "returned"
                  /\ rdErr' = Nil
                  /\ UNCHANGED lastError
             ELSE /\ pc' = "select"
                  /\ lastError' = Errorf("failed to remove disk", diskID, SendError)
                  /\ UNCHANGED rdErr
    /\ UNCHANGED <<newVars, ret, ctxDone, ctxAtCall, diskID, waits>>

\* case <-time.After(5 * time.Second): the timer is armed when the select is
\* entered, so it elapses only while ctx.Done() has stayed open.
SelectTimer ==
    /\ pc = "select"
    /\ ~ctxDone
    /\ Len(outcomes) < MaxAttempts
    /\ pc' = "attempt"
    /\ waits' = waits + 1
    /\ UNCHANGED <<newVars, ret, ctxDone, ctxAtCall, diskID, lastError, rdErr, outcomes>>

\* The mutation of the select that has no ctx.Done() case.
SelectWithoutCtxDone ==
    /\ FALSE
    /\ UNCHANGED vars

\* case <-ctx.Done()
SelectCtxDone ==
    /\ pc = "select"
    /\ ctxDone
    /\ pc' = "returned"
    /\ rdErr' = Errorf("timeout while tryint to remove disk", diskID, lastError)
    /\ UNCHANGED <<newVars, ret, ctxDone, ctxAtCall, diskID, lastError, outcomes, waits>>

\* The caller's context is cancelled or reaches its deadline while the call
\* is running (during a request or during the wait).
Cancel ==
    /\ pc \in {"attempt", "select"}
    /\ ~ctxDone
    /\ ctxDone' = TRUE
    /\ UNCHANGED <<newVars, ret, pc, ctxAtCall, diskID, lastError, rdErr, outcomes, waits>>

----------------------------------------------------------------------------
(* Specifications *)

Init ==
    /\ called = FALSE
    /\ args = NoArgs
    /\ sdkBuild = "notcalled"
    /\ trace = <<>>
    /\ client = NoClient
    /\ err = Nil
    /\ ret = NoRet
    /\ pc = "idle"
    /\ ctxDone = FALSE
    /\ ctxAtCall = FALSE
    /\ diskID = ""
    /\ lastError = Nil
    /\ rdErr = Nil
    /\ outcomes = <<>>
    /\ waits = 0

\* The factory: every call of New over the parameters drawn, and the
\* accessors of the wrapper it returns.  RemoveDisk reads nothing of New's
\* parameters but the wrapper being there; its steps are followed in
\* WrapperSpec, from the wrappers New returns.
Next ==
    \/ CallNew
    \/ GetSDKClient
    \/ GetHTTPClient
    \/ GetURL

Spec == Init /\ [][Next]_vars

\* The wrapper alone: the state after a successful New, and the calls a
\* caller makes on the wrapper from then on.
WrapperArgs ==
    [valid : {TRUE},
     url : {HttpScheme \o <<"e">>, <<"e">> \o HttpsScheme},
     username : {ScenarioUsername, <<"a", "@", "a">>},
     password : Passwords,
     caFile : {"", "ca.pem"},
     caCert : {<<>>, <<"cert">>},
     insecure : {TRUE},
     extraHeaders : HeaderSets]

WrapperInit ==
    /\ called = TRUE
    /\ args \in WrapperArgs
    /\ LET r == New(args.url, args.username, args.password, args.caFile,
                    args.caCert, args.insecure, args.extraHeaders, Nil)
       IN  /\ client = r.client
           /\ err = r.err
           /\ trace = r.trace
           /\ sdkBuild = r.sdkBuild
    /\ ret = NoRet
    /\ pc = "idle"
    /\ ctxDone = FALSE
    /\ ctxAtCall = FALSE
    /\ diskID = ""
    /\ lastError = Nil
    /\ rdErr = Nil
    /\ outcomes = <<>>
    /\ waits = 0

WrapperNext ==
    \/ GetSDKClient
    \/ GetHTTPClient
    \/ GetURL
    \/ RemoveDisk
    \/ Send
    \/ SelectTimer
    \/ SelectCtxDone
    \/ Cancel

\* Every removal request is answered, the timer elapses, and a goroutine
\* whose select has a ready case is scheduled.  The context is the caller's:
\* nothing forces it to become done.
WrapperSpec ==
    /\ WrapperInit
    /\ [][WrapperNext]_vars
    /\ WF_vars(Send)
    /\ WF_vars(SelectTimer)
    /\ WF_vars(SelectCtxDone)

----------------------------------------------------------------------------
(* The vocabulary of the claims *)

\* The error kind of an error returned by New or RemoveDisk, read off the
\* message of its outermost wrapping.
ErrKind(e) ==
    CASE e.msg = "nil" -> "nil"
      [] e.msg = "invalid URL" -> "InvalidURL"
      [] e.msg = "invalid username" -> "InvalidUsername"
      [] e.msg = "one of caFile, caCert, or insecure must be provided"
            -> "MissingTrustConfiguration"
      [] e.msg = "failed to create underlying oVirt connection"
            -> "ConnectionBuildError"
      [] e.msg = "failed to create TLS configuration" -> "CertificateError"
      [] e.msg = "timeout while tryint to remove disk" -> "Timeout"
      [] OTHER -> "other"

\* The CA source a CertificateError of New names: the inline bytes, or the
\* path of the file.
CertSource(e) ==
    IF e.cause.msg = "the provided CA certificate is not a valid certificate in PEM format"
    THEN "inline"
    ELSE e.cause.arg

\* url begins with "http://" or "https://"
StartsWithScheme(url) == HasPrefix(url, HttpScheme) \/ HasPrefix(url, HttpsScheme)

\* username is <non-empty>@<non-empty> with exactly one '@'
WellFormedUsername(username) ==
    /\ Cardinality({i \in 1..Len(username) : username[i] = "@"}) = 1
    /\ username[1] # "@"
    /\ username[Len(username)] # "@"

\* New's first two checks let the parameters through
PassesValidation ==
    /\ called
    /\ IsNil(validateURL(args.url))
    /\ IsNil(validateUsername(args.username))

\* no trust mechanism was supplied
NoTrustSupplied == args.caFile = "" /\ Len(args.caCert) = 0 /\ ~args.insecure

\* the inline CA bytes are present and are not valid PEM
InlineCertInvalid ==
    /\ Len(args.caCert) # 0
    /\ \A i \in 1..Len(args.caCert) : args.caCert[i] # "cert"

Last(seq) == seq[Len(seq)]

----------------------------------------------------------------------------
(* C1 *)

\* C1: for every url that does not start with "http://" or "https://", New
\* fails with InvalidURL whatever the other parameters are, and returns no
\* wrapper.
C1_NonSchemeURLRejected ==
    (called /\ ~StartsWithScheme(args.url))
        => (ErrKind(err) = "InvalidURL" /\ ~client.valid)

(* C2 *)

\* C2: every url that begins with "http://" or "https://" passes validateURL;
\* and New called with the url https://engine.example/ovirt-engine/api, the
\* username admin@internal, insecure = true, no caFile and no caCert, where
\* the connection build does not fail, succeeds and returns a wrapper whose
\* url is that url.
C2_SchemeURLAccepted ==
    /\ (called /\ StartsWithScheme(args.url)) => IsNil(validateURL(args.url))
    /\ ( /\ called
         /\ args.url = ScenarioURL
         /\ args.username = ScenarioUsername
         /\ args.insecure
         /\ args.caFile = ""
         /\ args.caCert = <<>>
         /\ sdkBuild # "failed" )
        => (IsNil(err) /\ client.valid /\ client.url = ScenarioURL)

(* C3 *)

\* C3: validateUsername accepts a username if and only if it has exactly one
\* '@' with a non-empty principal before it and a non-empty scope after it,
\* and New fails with InvalidUsername for every other username once the url
\* has passed validateURL.
C3_UsernameExactlyOneAt ==
    called =>
        /\ IsNil(validateUsername(args.username)) <=> WellFormedUsername(args.username)
        /\ (IsNil(validateURL(args.url)) /\ ~WellFormedUsername(args.username))
              => ErrKind(err) = "InvalidUsername"

(* C4 *)

\* C4: when the url and the username pass validation, New fails with
\* MissingTrustConfiguration, without invoking the connection builder and
\* without returning a wrapper, exactly when caFile is empty, caCert is empty
\* and insecure is false; with any of the three supplied the error is never
\* MissingTrustConfiguration.
C4_TrustCheck ==
    PassesValidation =>
        IF NoTrustSupplied
        THEN /\ ErrKind(err) = "MissingTrustConfiguration"
             /\ sdkBuild = "notcalled"
             /\ ~client.valid
        ELSE ErrKind(err) # "MissingTrustConfiguration"

\* New was called with parameters that pass validation and carry no trust
\* mechanism, and it returned the MissingTrustConfiguration error.
C4_Witness ==
    /\ PassesValidation
    /\ NoTrustSupplied
    /\ ErrKind(err) = "MissingTrustConfiguration"

(* C5 *)

\* C5 as stated: when caCert is non-empty and not valid PEM and the url and
\* the username pass validation, New fails with a CertificateError naming the
\* inline source, whatever caFile is.
C5_InlineErrorAlways ==
    (PassesValidation /\ InlineCertInvalid)
        => /\ ErrKind(err) = "CertificateError"
           /\ CertSource(err) = "inline"

\* C5 as amended: when caCert is non-empty and not valid PEM and the url and
\* the username pass validation, New returns no wrapper; the connection is
\* built first, so New fails with ConnectionBuildError when that build fails,
\* and when the build succeeds it fails with a CertificateError naming the
\* inline source, whether caFile is empty, valid, unreadable or invalid.
C5_InlineErrorAfterBuild ==
    (PassesValidation /\ InlineCertInvalid)
        => /\ ~client.valid
           /\ sdkBuild \in {"ok", "failed"}
           /\ sdkBuild = "failed" => ErrKind(err) = "ConnectionBuildError"
           /\ sdkBuild = "ok" => /\ ErrKind(err) = "CertificateError"
                                 /\ CertSource(err) = "inline"

\* New was given invalid inline PEM together with a caFile that cannot be
\* read, the connection was built, and the error names the inline source.
C5_Witness ==
    /\ PassesValidation
    /\ InlineCertInvalid
    /\ args.caFile = "missing.pem"
    /\ sdkBuild = "ok"
    /\ ErrKind(err) = "CertificateError"
    /\ CertSource(err) = "inline"

(* C6 *)

C7_SuccessAfterKFailures ==
    /\ (Len(outcomes) >= 1 /\ Last(outcomes))
          => /\ pc = "returned"
             /\ IsNil(rdErr)
             /\ \A i \in 1..(Len(outcomes) - 1) : ~outcomes[i]
             /\ waits = Len(outcomes) - 1
    /\ (pc = "returned" /\ IsNil(rdErr))
          => (Len(outcomes) >= 1 /\ Last(outcomes))

\* The removal failed twice and then succeeded under a context that was
\* never cancelled: nil after two waits and three attempts.
C7_Witness ==
    /\ pc = "returned"
    /\ IsNil(rdErr)
    /\ outcomes = <<FALSE, FALSE, TRUE>>
    /\ waits = 2
    /\ ~ctxDone

(* C8 *)

\* C8: once New has returned a wrapper, no call of GetSDKClient, GetHTTPClient,
\* GetURL or RemoveDisk changes its connection, HTTP client or url; each
\* accessor returns the wrapper's field, and GetURL returns the url that was
\* passed to New.
C8_WrapperUnchanged ==
    /\ [][client.valid => client' = client]_vars
    /\ [](ret.op = "GetURL" => (ret.val = client.url /\ ret.val = args.url))
    /\ [](ret.op = "GetSDKClient" => ret.val = client.conn)
    /\ [](ret.op = "GetHTTPClient" => ret.val = client.httpClient)

\* GetURL was called after a RemoveDisk call on the same wrapper had run to
\* its end, and returned the url passed to New.
C8_Witness ==
    /\ client.valid
    /\ pc = "returned"
    /\ ret.op = "GetURL"
    /\ ret.val = args.url

(* C9 *)

\* C9: when every removal attempt is answered, a RemoveDisk call whose context
\* is done eventually returns, also when every attempt fails; and a call
\* returns only after a successful attempt or when its context is done, so
\* with an always-failing removal and no cancellation it never returns.
C9_ReturnsOnceContextDone ==
    /\ (pc \in {"attempt", "select"} /\ ctxDone) ~> (pc = "returned")
    /\ [](pc = "returned" => (ctxDone \/ (Len(outcomes) >= 1 /\ Last(outcomes))))
    /\ [][(pc = "select" /\ ~ctxDone) => pc' # "returned"]_vars

\* The context became done during the call, after two failed attempts and a
\* timer wait, and the call returned Timeout.
C9_Witness ==
    /\ pc = "returned"
    /\ ~ctxAtCall
    /\ ctxDone
    /\ outcomes = <<FALSE, FALSE>>
    /\ waits = 1
    /\ ErrKind(rdErr) = "Timeout"

(* C10 *)

StepOrder == <<"validateURL", "validateUsername", "trust", "build", "tls">>

\* what the earliest failing step of StepOrder makes New return
ExpectedKind ==
    IF ~IsNil(validateURL(args.url)) THEN "InvalidURL"
    ELSE IF ~IsNil(validateUsername(args.username)) THEN "InvalidUsername"
    ELSE IF NoTrustSupplied THEN "MissingTrustConfiguration"
    ELSE IF sdkBuild = "failed" THEN "ConnectionBuildError"
    ELSE IF ~IsNil(createTLSConfig(args.caFile, args.caCert, args.insecure).err)
    THEN "CertificateError"
    ELSE "nil"

\* the number of steps New runs before it returns ExpectedKind
ExpectedSteps ==
    CASE ExpectedKind = "InvalidURL" -> 1
      [] ExpectedKind = "InvalidUsername" -> 2
      [] ExpectedKind = "MissingTrustConfiguration" -> 3
      [] ExpectedKind = "ConnectionBuildError" -> 4
      [] OTHER -> 5

\* C10: New runs validateURL, validateUsername, the trust check, the
\* connection build and the TLS configuration in this order and stops at the
\* first step that fails, returning that step's error kind; the connection
\* builder is invoked only after the three validation checks have passed; and
\* New returns a wrapper exactly when it returns no error.
C10_StepOrder ==
    called =>
        /\ trace = SubSeq(StepOrder, 1, ExpectedSteps)
        /\ ErrKind(err) = ExpectedKind
        /\ sdkBuild # "notcalled" => (PassesValidation /\ ~NoTrustSupplied)
        /\ (sdkBuild # "notcalled") <=> (\E i \in 1..Len(trace) : trace[i] = "build")
        /\ client.valid <=> IsNil(err)

\* New got as far as the TLS configuration, after a successful connection
\* build, and failed there.
C10_Witness ==
    /\ called
    /\ trace = StepOrder
    /\ sdkBuild = "ok"
    /\ ErrKind(err) = "CertificateError"
    /\ ~client.valid

====
